---- MODULE Spec2Model ----
(***************************************************************************)
(* Block-range pagination of the perps-market service layer                *)
(* (services/service.go): the two helpers of Service,                      *)
(* getIterationsForLimitQuery and getFilterOptsPerpsMarket, and the        *)
(* limit-paginated retrieval built on them.                                *)
(*                                                                         *)
(* Go's uint64 is modelled as an unsigned integer of UintBits bits: every  *)
(* subtraction, addition and multiplication of the code wraps modulo       *)
(* UintMod, as it wraps modulo 2^64 in the program.                        *)
(***************************************************************************)
EXTENDS Integers, Sequences, FiniteSets, TLC

VARIABLES
    s,          \* the Service: its three first-block fields and its handles
    chainLogs,  \* the perps-market logs the node holds
    call,       \* the operation last called: its name, arguments, receiver
    ret,        \* what that operation returned
    pc,         \* position of the limit-paginated retrieval
    plan,       \* its plan: iterations, lastBlock, chunkSize
    i,          \* index of the next chunk
    acc,        \* raw log entries collected so far
    issued,     \* the filter options of every fetch issued, in order
    out         \* what the retrieval returned: records and error

vars == <<s, chainLogs, call, ret, pc, plan, i, acc, issued, out>>

----------------------------------------------------------------------------
(* Bounds of the model *)

UintBits == 16
MaxBlock == 4
MaxFirstBlock == 2
MaxLimit == 3
MaxChunks == 5
MaxLogBlock == 2
MaxLogs == 2

(* Program constant: the default block limit (limit == 0) *)
DefaultLimit == 20000

UintMod == 2 ^ UintBits
MaxUint == UintMod - 1

(* unsigned arithmetic of width UintBits *)
UAdd(a, b) == (a + b) % UintMod
USub(a, b) == (a + UintMod - b) % UintMod
UMul(a, b) == (a * b) % UintMod
UDiv(a, b) == a \div b

Min(a, b) == IF a <= b THEN a ELSE b

----------------------------------------------------------------------------
(* Values *)

\* a *uint64: nil, or a pointer to a block number
None == [some |-> FALSE, v |-> 0]
Some(b) == [some |-> TRUE, v |-> b]

\* a nil error
NoErr == [kind |-> "nil", operation |-> ""]

\* errors.GetRPCProviderErr(err, operation)
GetRPCProviderErr(operation) == [kind |-> "RPCProviderErr", operation |-> operation]

\* block numbers of the spec's scenarios and their chunk boundaries
ScenarioBlocks == {100, 19999, 20000, 39999, 40000, 45000}

Blocks == (0..MaxBlock) \cup ScenarioBlocks \cup {MaxUint}
FirstBlocks == (0..MaxFirstBlock) \cup {100}
Limits == (0..MaxLimit) \cup {DefaultLimit, MaxUint}
OptBlocks == {Some(b) : b \in Blocks} \cup {None}

\* one answer of rpcClient.BlockNumber: the head, or a transport failure
RpcAnswers == [ok : {TRUE}, head : Blocks] \cup {[ok |-> FALSE, head |-> 0]}
\* the answers the node gives to the next two BlockNumber reads
RpcScripts == [1..2 -> RpcAnswers]

Services ==
    [rpcClient : {"rpc"}, core : {"core"}, coreFirstBlock : {0, 3},
     spotMarket : {"spotMarket"}, spotMarketFirstBlock : {5},
     perpsMarket : {"perpsMarket"}, perpsMarketFirstBlock : FirstBlocks]

----------------------------------------------------------------------------
(* Service.getIterationsForLimitQuery: the iterations, the last block and   *)
(* the error, with the number of BlockNumber reads made and the receiver    *)
(* as the call leaves it.                                                   *)

getIterationsForLimitQuery_NoPlusOne(svc, rpc, limit) ==
    IF ~rpc[1].ok
    THEN [iterations |-> 0, lastBlock |-> 0,
          err |-> GetRPCProviderErr("BlockNumber"), reads |-> 1, s |-> svc]
    ELSE LET lim == IF limit = 0 THEN DefaultLimit ELSE limit
         IN  [iterations |-> UDiv(USub(rpc[1].head, svc.perpsMarketFirstBlock), lim),
              lastBlock |-> rpc[1].head, err |-> NoErr, reads |-> 1, s |-> svc]

getIterationsForLimitQuery_Default2000(svc, rpc, limit) ==
    IF ~rpc[1].ok
    THEN [iterations |-> 0, lastBlock |-> 0,
          err |-> GetRPCProviderErr("BlockNumber"), reads |-> 1, s |-> svc]
    ELSE LET lim == IF limit = 0 THEN 2000 ELSE limit
         IN  [iterations |-> UAdd(UDiv(USub(rpc[1].head, svc.perpsMarketFirstBlock), lim), 1),
              lastBlock |-> rpc[1].head, err |-> NoErr, reads |-> 1, s |-> svc]

getIterationsForLimitQuery_Retry(svc, rpc, limit) ==
    LET n == IF rpc[1].ok THEN 1 ELSE 2
        lim == IF limit = 0 THEN DefaultLimit ELSE limit
    IN  IF ~rpc[n].ok
        THEN [iterations |-> 0, lastBlock |-> 0,
              err |-> GetRPCProviderErr("BlockNumber"), reads |-> n, s |-> svc]
        ELSE [iterations |-> UAdd(UDiv(USub(rpc[n].head, svc.perpsMarketFirstBlock), lim), 1),
              lastBlock |-> rpc[n].head, err |-> NoErr, reads |-> n, s |-> svc]

getIterationsForLimitQuery_CoreFloor(svc, rpc, limit) ==
    IF ~rpc[1].ok
    THEN [iterations |-> 0, lastBlock |-> 0,
          err |-> GetRPCProviderErr("BlockNumber"), reads |-> 1, s |-> svc]
    ELSE LET lim == IF limit = 0 THEN DefaultLimit ELSE limit
         IN  [iterations |-> UAdd(UDiv(USub(rpc[1].head, svc.coreFirstBlock), lim), 1),
              lastBlock |-> rpc[1].head, err |-> NoErr, reads |-> 1, s |-> svc]

getIterationsForLimitQuery(svc, rpc, limit) ==
    IF ~rpc[1].ok
    THEN [iterations |-> 0, lastBlock |-> 0,
          err |-> GetRPCProviderErr("BlockNumber"), reads |-> 1, s |-> svc]
    ELSE LET lim == IF limit = 0 THEN DefaultLimit ELSE limit
         IN  [iterations |-> UAdd(UDiv(USub(rpc[1].head, svc.perpsMarketFirstBlock), lim), 1),
              lastBlock |-> rpc[1].head, err |-> NoErr, reads |-> 1, s |-> svc]

----------------------------------------------------------------------------
(* Service.getFilterOptsPerpsMarket: the bind.FilterOpts it returns, and    *)
(* the receiver as the call leaves it. The function has no error result.    *)

getFilterOptsPerpsMarket_FloorClamp(svc, fromBlock, toBLock) ==
    [opts |-> [Start |-> IF fromBlock < svc.perpsMarketFirstBlock
                         THEN svc.perpsMarketFirstBlock ELSE fromBlock,
               End |-> toBLock, Context |-> "Background"],
     s |-> svc]

getFilterOptsPerpsMarket_CoreDefault(svc, fromBlock, toBLock) ==
    [opts |-> [Start |-> IF fromBlock = 0 THEN svc.coreFirstBlock ELSE fromBlock,
               End |-> toBLock, Context |-> "Background"],
     s |-> svc]

getFilterOptsPerpsMarket(svc, fromBlock, toBLock) ==
    [opts |-> [Start |-> IF fromBlock = 0 THEN svc.perpsMarketFirstBlock ELSE fromBlock,
               End |-> toBLock, Context |-> "Background"],
     s |-> svc]

----------------------------------------------------------------------------
(* State after NewService, and the calls of the two helpers *)

Idle == [op |-> "none"]

NewService ==
    /\ s \in Services
    /\ call = Idle
    /\ ret = Idle
    /\ pc = "idle"
    /\ plan = Idle
    /\ i = 0
    /\ acc = <<>>
    /\ issued = <<>>
    /\ out = Idle

Init ==
    /\ NewService
    /\ chainLogs = {}

CallGetIterationsForLimitQuery ==
    /\ call = Idle
    /\ pc = "idle"
    /\ \E limit \in Limits, rpc \in RpcScripts :
           LET r == getIterationsForLimitQuery(s, rpc, limit)
           IN  /\ call' = [op |-> "getIterationsForLimitQuery", limit |-> limit,
                           rpc |-> rpc, s |-> s]
               /\ ret' = [iterations |-> r.iterations, lastBlock |-> r.lastBlock,
                          err |-> r.err, reads |-> r.reads]
               /\ s' = r.s
               /\ UNCHANGED <<chainLogs, pc, plan, i, acc, issued, out>>

CallGetFilterOptsPerpsMarket ==
    /\ call = Idle
    /\ pc = "idle"
    /\ \E fromBlock \in Blocks, toBLock \in OptBlocks :
           LET r == getFilterOptsPerpsMarket(s, fromBlock, toBLock)
           IN  /\ call' = [op |-> "getFilterOptsPerpsMarket", fromBlock |-> fromBlock,
                           toBLock |-> toBLock, s |-> s]
               /\ ret' = [opts |-> r.opts, err |-> NoErr]
               /\ s' = r.s
               /\ UNCHANGED <<chainLogs, pc, plan, i, acc, issued, out>>

\* the caller takes the result; the Service keeps nothing of the call
Return ==
    /\ call # Idle
    /\ pc \in {"idle", "done"}
    /\ call' = Idle
    /\ ret' = Idle
    /\ pc' = "idle"
    /\ plan' = Idle
    /\ i' = 0
    /\ acc' = <<>>
    /\ issued' = <<>>
    /\ out' = Idle
    /\ UNCHANGED <<s, chainLogs>>

Next ==
    \/ CallGetIterationsForLimitQuery
    \/ CallGetFilterOptsPerpsMarket
    \/ Return

Spec == Init /\ [][Next]_vars

----------------------------------------------------------------------------
(* The node's logs and the log-filter primitive of the contract binding     *)

\* two logs a block can hold; their transaction hashes and log indexes
\* order them differently
LogSlots == {[transactionHash |-> 2, logIndex |-> 0],
             [transactionHash |-> 1, logIndex |-> 1]}

CandidateLogs ==
    {[blockNumber |-> b, transactionHash |-> x.transactionHash, logIndex |-> x.logIndex] :
        b \in 0..MaxLogBlock, x \in LogSlots}

ChainConfigs == {L \in SUBSET CandidateLogs : Cardinality(L) <= MaxLogs}

\* the ordering key (blockNumber, transactionHash, logIndex)
LogLess(a, b) ==
    \/ a.blockNumber < b.blockNumber
    \/ /\ a.blockNumber = b.blockNumber
       /\ \/ a.transactionHash < b.transactionHash
          \/ /\ a.transactionHash = b.transactionHash
             /\ a.logIndex < b.logIndex

RECURSIVE SortLogs(_)
SortLogs(L) ==
    IF L = {} THEN <<>>
    ELSE LET m == CHOOSE x \in L : \A y \in L \ {x} : LogLess(x, y)
         IN  <<m>> \o SortLogs(L \ {m})

\* the logs of [opts.Start, opts.End] (to the latest block when End is nil),
\* in ascending key order
FilterLogs(opts) ==
    SortLogs({l \in chainLogs :
                /\ opts.Start <= l.blockNumber
                /\ opts.End.some => l.blockNumber <= opts.End.v})

----------------------------------------------------------------------------
(* The limit-paginated retrieval to the latest block                        *)

\* the chunk size of the plan: a limit of 0 is the default
ChunkSize(limit) == IF limit = 0 THEN DefaultLimit ELSE limit

ChunkStart(from, k, size) == UAdd(from, UMul(k, size))
ChunkEnd(from, k, size, head) == Min(UAdd(ChunkStart(from, k, size), USub(size, 1)), head)

InitPaginate ==
    /\ NewService
    /\ s.coreFirstBlock = 0
    /\ chainLogs \in ChainConfigs

RetrieveLimit ==
    /\ call = Idle
    /\ pc = "idle"
    /\ \E limit \in Limits, rpc \in RpcScripts :
           LET r == getIterationsForLimitQuery(s, rpc, limit)
           IN  /\ call' = [op |-> "RetrieveLimit", limit |-> limit]
               /\ s' = r.s
               /\ IF r.err # NoErr
                  THEN /\ out' = [records |-> <<>>, err |-> r.err]
                       /\ pc' = "done"
                       /\ plan' = plan
                  ELSE /\ plan' = [iterations |-> r.iterations, lastBlock |-> r.lastBlock,
                                   chunkSize |-> ChunkSize(limit),
                                   from |-> r.s.perpsMarketFirstBlock]
                       /\ IF r.iterations = 0
                          THEN /\ out' = [records |-> <<>>, err |-> NoErr]
                               /\ pc' = "done"
                          ELSE /\ out' = out
                               /\ pc' = "fetch"
               /\ UNCHANGED <<chainLogs, ret, i, acc, issued>>

FetchChunk_ReturnsPartial ==
    /\ pc = "fetch"
    /\ i < plan.iterations
    /\ i < MaxChunks
    /\ \E ok \in BOOLEAN :
           LET chunkStart == ChunkStart(plan.from, i, plan.chunkSize)
               chunkEnd == ChunkEnd(plan.from, i, plan.chunkSize, plan.lastBlock)
               r == getFilterOptsPerpsMarket(s, chunkStart, Some(chunkEnd))
           IN  /\ s' = r.s
               /\ issued' = Append(issued, r.opts)
               /\ IF ok
                  THEN /\ acc' = acc \o FilterLogs(r.opts)
                       /\ i' = i + 1
                       /\ IF i + 1 = plan.iterations
                          THEN /\ out' = [records |-> acc', err |-> NoErr]
                               /\ pc' = "done"
                          ELSE /\ out' = out
                               /\ pc' = "fetch"
                  ELSE /\ out' = [records |-> acc, err |-> GetRPCProviderErr("FilterLogs")]
                       /\ pc' = "done"
                       /\ UNCHANGED <<i, acc>>
               /\ UNCHANGED <<chainLogs, call, ret, plan>>

\* one chunk of the loop: build the filter options, fetch, append or abort
FetchChunk ==
    /\ pc = "fetch"
    /\ i < plan.iterations
    /\ i < MaxChunks
    /\ \E ok \in BOOLEAN :
           LET chunkStart == ChunkStart(plan.from, i, plan.chunkSize)
               chunkEnd == ChunkEnd(plan.from, i, plan.chunkSize, plan.lastBlock)
               r == getFilterOptsPerpsMarket(s, chunkStart, Some(chunkEnd))
           IN  /\ s' = r.s
               /\ issued' = Append(issued, r.opts)
               /\ IF ok
                  THEN /\ acc' = acc \o FilterLogs(r.opts)
                       /\ i' = i + 1
                       /\ IF i + 1 = plan.iterations
                          THEN /\ out' = [records |-> acc', err |-> NoErr]
                               /\ pc' = "done"
                          ELSE /\ out' = out
                               /\ pc' = "fetch"
                  ELSE /\ out' = [records |-> <<>>, err |-> GetRPCProviderErr("FilterLogs")]
                       /\ pc' = "done"
                       /\ UNCHANGED <<i, acc>>
               /\ UNCHANGED <<chainLogs, call, ret, plan>>

NextPaginate ==
    \/ RetrieveLimit
    \/ FetchChunk
    \/ Return

PaginateSpec == InitPaginate /\ [][NextPaginate]_vars


----------------------------------------------------------------------------
(* Properties of getIterationsForLimitQuery                                 *)

PlanCalled == call.op = "getIterationsForLimitQuery"
PlanSucceeded == PlanCalled /\ ret.err = NoErr

\* the chunks of the plan, in exact (unwrapped) arithmetic
ExactChunkStart(first, k, limit) == first + k * limit
ExactChunkEnd(first, k, limit, head) == Min(ExactChunkStart(first, k, limit) + limit - 1, head)

ChunksCover(first, head, limit, iterations) ==
    /\ \A k \in 0..(iterations - 1) :
          ExactChunkStart(first, k, limit) <= ExactChunkEnd(first, k, limit, head)
    /\ \A k \in 0..(iterations - 2) :
          ExactChunkStart(first, k + 1, limit) = ExactChunkEnd(first, k, limit, head) + 1
    /\ IF iterations = 0
       THEN head < first
       ELSE /\ ExactChunkStart(first, 0, limit) = first
            /\ ExactChunkEnd(first, iterations - 1, limit, head) = head

\* C1 (chunk coverage): for every first block, chain head and limit > 0, the
\* chunks firstBlock + k*limit .. min(start + limit - 1, head), k below the
\* planned iterations, are non-empty, contiguous, disjoint and cover exactly
\* [firstBlock, chainHead].
C1_ChunkCoverage ==
    (PlanSucceeded /\ call.limit > 0) =>
        ChunksCover(call.s.perpsMarketFirstBlock, ret.lastBlock, call.limit, ret.iterations)

\* C2 (iteration lower bound): whenever the chain-head read succeeds, the
\* planned iterations are at least 1, for every limit, first block and head.
C2_IterationsAtLeastOne ==
    PlanSucceeded => ret.iterations >= 1

\* C3 (limit normalization): a call with limit 0 returns the triple a call
\* with limit 20000 returns against the same node and the same Service.
C3_LimitZeroIsTwentyThousand ==
    (PlanCalled /\ call.limit = 0) =>
        LET r == getIterationsForLimitQuery(call.s, call.rpc, 20000)
        IN  /\ ret.iterations = r.iterations
            /\ ret.lastBlock = r.lastBlock
            /\ ret.err = r.err

\* the call with limit 0 succeeded and planned more than one chunk
C3_Witness ==
    /\ PlanSucceeded
    /\ call.limit = 0
    /\ ret.iterations = 3
    /\ ret.lastBlock = 45000

\* C6 (chain-head failure): when the BlockNumber read fails the call returns
\* iterations 0, lastBlock 0 and the RPC provider error of operation
\* "BlockNumber", after that one read, whatever a second read would answer.
C6_ChainHeadFailure ==
    (PlanCalled /\ ~call.rpc[1].ok) =>
        /\ ret.iterations = 0
        /\ ret.lastBlock = 0
        /\ ret.err = [kind |-> "RPCProviderErr", operation |-> "BlockNumber"]
        /\ ret.reads = 1

\* the read failed, a second read would have succeeded, and the limit was 0
C6_Witness ==
    /\ PlanCalled
    /\ ~call.rpc[1].ok
    /\ call.rpc[2].ok
    /\ call.limit = 0
    /\ ret.err.operation = "BlockNumber"

\* C10 (shared pagination floor): on a successful read lastBlock is the head
\* the node reported and iterations is (head - perpsMarketFirstBlock) / limit
\* + 1 in unsigned arithmetic, limit 0 read as 20000, whatever the core and
\* spot-market first blocks are.
C10_SharedFloor ==
    PlanSucceeded =>
        LET head == call.rpc[1].head
            first == call.s.perpsMarketFirstBlock
            lim == IF call.limit = 0 THEN 20000 ELSE call.limit
            diff == IF head >= first THEN head - first ELSE UintMod - (first - head)
        IN  /\ ret.lastBlock = head
            /\ ret.iterations = ((diff \div lim) + 1) % UintMod
            /\ \A c \in Blocks, sp \in Blocks :
                  LET r == getIterationsForLimitQuery(
                              [call.s EXCEPT !.coreFirstBlock = c,
                                             !.spotMarketFirstBlock = sp],
                              call.rpc, call.limit)
                  IN  r.iterations = ret.iterations /\ r.lastBlock = ret.lastBlock

\* the three first blocks differ and the floor decides the iteration count
C10_Witness ==
    /\ PlanSucceeded
    /\ call.s.coreFirstBlock # call.s.perpsMarketFirstBlock
    /\ call.s.spotMarketFirstBlock # call.s.perpsMarketFirstBlock
    /\ call.limit = 1
    /\ ret.lastBlock = 4
    /\ ret.iterations = 4

----------------------------------------------------------------------------
(* Properties of getFilterOptsPerpsMarket                                   *)

FilterCalled == call.op = "getFilterOptsPerpsMarket"

\* C4 (default substitution): called with fromBlock 0, the options start at
\* the perps-market first block, for every toBlock, nil included.
C4_DefaultSubstitution ==
    (FilterCalled /\ call.fromBlock = 0) =>
        ret.opts.Start = call.s.perpsMarketFirstBlock

\* fromBlock 0 was replaced by a first block that is not 0, with toBlock nil
C4_Witness ==
    /\ FilterCalled
    /\ call.fromBlock = 0
    /\ call.toBLock = None
    /\ call.s.perpsMarketFirstBlock = 100
    /\ ret.opts.Start = 100

\* C8 (malformed range rejection): a range with fromBlock above toBlock is
\* refused with an error and no options with Start > End are handed on.
C8_MalformedRangeRejected ==
    (FilterCalled /\ call.toBLock.some /\ call.fromBlock > call.toBLock.v) =>
        ret.err # NoErr

\* C9 (pass-through): a fromBlock other than 0 is the Start, also below the
\* first block; End is the caller's toBlock, nil staying nil; there is no
\* error; the Service is as it was before the call.
C9_PassThrough ==
    FilterCalled =>
        /\ call.fromBlock # 0 => ret.opts.Start = call.fromBlock
        /\ ret.opts.End = call.toBLock
        /\ ret.err = NoErr
        /\ s = call.s

\* a fromBlock below the first block went through, with a toBlock below it
C9_Witness ==
    /\ FilterCalled
    /\ call.fromBlock = 1
    /\ call.s.perpsMarketFirstBlock = 100
    /\ call.toBLock = Some(0)
    /\ ret.opts.Start = 1
    /\ ret.opts.End = Some(0)

----------------------------------------------------------------------------
(* Properties of the limit-paginated retrieval                              *)

FetchFailed == pc = "done" /\ call.op = "RetrieveLimit" /\ out.err.operation = "FilterLogs"

\* C5 (fail-fast): when the fetch of a chunk fails, no later chunk is
\* fetched and the retrieval returns no record, with the error; what the
\* earlier chunks gave is not returned.
C5_FailFast ==
    FetchFailed =>
        /\ out.records = <<>>
        /\ out.err = [kind |-> "RPCProviderErr", operation |-> "FilterLogs"]
        /\ Len(issued) = i + 1
        /\ ~ENABLED FetchChunk

\* the third chunk failed after the first two had given records
C5_Witness ==
    /\ FetchFailed
    /\ i = 2
    /\ Len(acc) = 2
    /\ plan.iterations > 3

IsSorted(q) == \A k \in 1..(Len(q) - 1) : LogLess(q[k], q[k + 1])

\* the fetches were issued over non-empty ranges in ascending block order
IssuedAscending ==
    /\ \A k \in 1..Len(issued) : issued[k].Start <= issued[k].End.v
    /\ \A k \in 1..(Len(issued) - 1) : issued[k].End.v < issued[k + 1].Start

PaginatedOk ==
    /\ pc = "done"
    /\ call.op = "RetrieveLimit"
    /\ out.err = NoErr
    /\ plan.iterations >= 2

\* C7 (ordering): a retrieval of two or more chunks, fetched in ascending
\* block order and all succeeding, returns the logs sorted by (blockNumber,
\* transactionHash, logIndex), none twice and none missing: the result of one
\* query over the whole range from the first block to the chain head.
C7_Ordering ==
    (PaginatedOk /\ IssuedAscending) =>
        /\ IsSorted(out.records)
        /\ out.records =
              FilterLogs([Start |-> plan.from, End |-> Some(plan.lastBlock)])
        /\ \A l \in chainLogs :
              (plan.from <= l.blockNumber /\ l.blockNumber <= plan.lastBlock) =>
                  Cardinality({k \in 1..Len(out.records) : out.records[k] = l}) = 1

\* three chunks, two logs of one block and the last chunk holding a log
C7_Witness ==
    /\ PaginatedOk
    /\ IssuedAscending
    /\ plan.iterations = 3
    /\ Len(out.records) = 2
    /\ out.records[1].blockNumber = out.records[2].blockNumber
    /\ out.records[2].blockNumber = plan.lastBlock

====
